---- MODULE Spec2Model ----
(***************************************************************************)
(* Model of core/src/search_stores/search_types.rs: SearchItem::from_hit,  *)
(* the classification of one raw search hit (a serde_json Value) into a    *)
(* SearchItem variant by the name of the index the hit came from.          *)
(*                                                                         *)
(* Strings are sequences of one-character strings, so that starts_with is  *)
(* computed on the characters.  An Option<T> is a set with no element      *)
(* (None) or one element (Some).                                           *)
(***************************************************************************)
EXTENDS Integers, Sequences, FiniteSets, TLC

VARIABLES hits, pc, ref, source, index, result

vars == <<hits, pc, ref, source, index, result>>

(***************************************************************************)
(* Bounds of the model.                                                    *)
(***************************************************************************)
\* index names carry the version suffixes _v1 .. _v<MaxVersion>
MaxVersion == 2
\* the search response holds at most MaxHits hits
MaxHits == 2

\* the tasks that call from_hit, in any interleaving
Threads == {"t1", "t2"}

(***************************************************************************)
(* serde_json::Value.  kind is the enum variant; text holds the characters *)
(* of a String (or the literal of a Bool or Number); fields holds the      *)
(* members of an Object.                                                   *)
(***************************************************************************)
NoFields == [k \in {} |-> 0]

Null == [kind |-> "Null", text |-> <<>>, fields |-> NoFields]

Bool(b) == [kind |-> "Bool", text |-> <<b>>, fields |-> NoFields]

Number(n) == [kind |-> "Number", text |-> <<n>>, fields |-> NoFields]

String(s) == [kind |-> "String", text |-> s, fields |-> NoFields]

Array == [kind |-> "Array", text |-> <<>>, fields |-> NoFields]

Object(f) == [kind |-> "Object", text |-> <<>>, fields |-> f]

(***************************************************************************)
(* The index-name constant of crate::data_sources::node, and the prefix of *)
(* the data-source indices, which is a strict prefix of it.                *)
(***************************************************************************)
DATA_SOURCE_NODE_INDEX_NAME ==
    <<"d","a","t","a","_","s","o","u","r","c","e","_","n","o","d","e">>

DATA_SOURCE_INDEX_NAME ==
    <<"d","a","t","a","_","s","o","u","r","c","e">>

(***************************************************************************)
(* Library functions used by from_hit.                                     *)
(***************************************************************************)
\* Value::get(&self, key: &str) -> Option<&Value>: a member of an Object,
\* None for a missing key and for every Value that is not an Object.
get(v, key) ==
    IF v.kind = "Object" /\ key \in DOMAIN v.fields
    THEN {v.fields[key]}
    ELSE {}

\* Value::as_str(&self) -> Option<&str>: the characters of a String only.
as_str(v) ==
    IF v.kind = "String" THEN {v.text} ELSE {}

\* str::starts_with(&self, pat: &str)
starts_with(s, pat) ==
    /\ Len(pat) <= Len(s)
    /\ SubSeq(s, 1, Len(pat)) = pat

(***************************************************************************)
(* The decoders (impl From<Value>) and the results.                        *)
(***************************************************************************)
NodeESDocument_from(v) == [schema |-> "NodeESDocument", raw |-> v]

DataSourceESDocument_from(v) == [schema |-> "DataSourceESDocument", raw |-> v]

NoDocument == [schema |-> "", raw |-> Null]

\* enum SearchItem
Node(doc) == [variant |-> "Node", doc |-> doc]

DataSource(doc) == [variant |-> "DataSource", doc |-> doc]

NoItem == [variant |-> "", doc |-> NoDocument]

\* anyhow::Result<SearchItem>
Ok(item) == [ok |-> TRUE, item |-> item, error |-> ""]

Err(msg) == [ok |-> FALSE, item |-> NoItem, error |-> msg]

MissingPayload == "Missing _source"

MissingIndexName == "Missing _index"

(***************************************************************************)
(* SearchItem::from_hit, piece by piece.                                   *)
(***************************************************************************)
the(opt) == CHOOSE x \in opt : TRUE

\* variant of extract_source: &hit["_source"], which is Null for a missing key
extract_source_indexing(hit) ==
    IF get(hit, "_source") = {} THEN {Null} ELSE get(hit, "_source")

\* variant of extract_source: a null payload counts as missing
extract_source_non_null(hit) ==
    {v \in get(hit, "_source") : v.kind # "Null"}

\* hit.get("_source")
extract_source(hit) == get(hit, "_source")

\* variant of extract_index: the index value is printed, whatever its type
extract_index_lossy(hit) == {v.text : v \in get(hit, "_index")}

\* hit.get("_index").and_then(|v| v.as_str())
extract_index(hit) == UNION {as_str(v) : v \in get(hit, "_index")}

\* variant of classify: the shorter data-source prefix is tested first
classify_shorter_prefix_first(idx, src) ==
    IF starts_with(idx, DATA_SOURCE_INDEX_NAME)
    THEN Ok(DataSource(DataSourceESDocument_from(src)))
    ELSE IF starts_with(idx, DATA_SOURCE_NODE_INDEX_NAME)
         THEN Ok(Node(NodeESDocument_from(src)))
         ELSE Ok(DataSource(DataSourceESDocument_from(src)))

\* variant of classify: receiver and argument of starts_with are swapped
classify_swapped_receiver(idx, src) ==
    IF starts_with(DATA_SOURCE_NODE_INDEX_NAME, idx)
    THEN Ok(Node(NodeESDocument_from(src)))
    ELSE Ok(DataSource(DataSourceESDocument_from(src)))

\* the if / else on the index name: the node prefix is the only one tested
classify(idx, src) ==
    IF starts_with(idx, DATA_SOURCE_NODE_INDEX_NAME)
    THEN Ok(Node(NodeESDocument_from(src)))
    ELSE Ok(DataSource(DataSourceESDocument_from(src)))

\* one call of from_hit, run alone
from_hit(hit) ==
    IF extract_source(hit) = {}
    THEN Err(MissingPayload)
    ELSE IF extract_index(hit) = {}
         THEN Err(MissingIndexName)
         ELSE classify(the(extract_index(hit)), the(extract_source(hit)))

(***************************************************************************)
(* The inputs: the hits a search response can hold.                        *)
(***************************************************************************)
Digits == <<"1", "2", "3", "4", "5", "6", "7", "8", "9">>

VersionSuffixes == {<<"_", "v", Digits[n]>> : n \in 1..MaxVersion}

UnrelatedName ==
    <<"u","n","r","e","l","a","t","e","d","_","i","n","d","e","x">>

IndexNames ==
    {SubSeq(DATA_SOURCE_NODE_INDEX_NAME, 1, n) :
        n \in 0..Len(DATA_SOURCE_NODE_INDEX_NAME)}
    \cup {base \o suffix :
            base \in {DATA_SOURCE_NODE_INDEX_NAME, DATA_SOURCE_INDEX_NAME,
                      UnrelatedName},
            suffix \in VersionSuffixes}
    \cup {UnrelatedName \o <<"_", "x">>,
          <<"x">> \o DATA_SOURCE_NODE_INDEX_NAME}

NodePayload == Object("id" :> String(<<"n", "1">>))

DataSourcePayload == Object("id" :> String(<<"d", "1">>))

\* every JSON value is a payload: from_hit does not look into it
Payloads == {NodePayload, DataSourcePayload, Null, String(<<"n", "1">>)}

NonStrings == {Null, Number("7"), Bool("t"), Array, NodePayload}

Keys == {"_source", "_index", "_score"}

FieldValues(key) ==
    CASE key = "_source" -> Payloads
      [] key = "_index" -> NonStrings \cup {String(n) : n \in IndexNames}
      [] key = "_score" -> {Number("1")}

ObjectHits ==
    UNION {
        {Object(f) : f \in {g \in [ks -> UNION {FieldValues(k) : k \in ks}] :
                               \A k \in ks : g[k] \in FieldValues(k)}} :
        ks \in SUBSET Keys}

\* a hit that is not an object at all
NonObjectHits == {Null, Number("7"), Bool("t"), Array, String(<<"n", "1">>)}

Hits == ObjectHits \cup NonObjectHits

Hit(src, idx, score) ==
    Object([k \in {key \in Keys : \/ key = "_source" /\ src # {}
                                  \/ key = "_index" /\ idx # {}
                                  \/ key = "_score" /\ score # {}} |->
               CASE k = "_source" -> the(src)
                 [] k = "_index" -> the(idx)
                 [] k = "_score" -> the(score)])

\* the hits of the responses that hold several hits
SharedHits ==
    {Null,
     Hit({}, {String(DATA_SOURCE_NODE_INDEX_NAME)}, {}),
     Hit({}, {}, {Number("1")}),
     Hit({NodePayload}, {}, {}),
     Hit({NodePayload}, {Number("7")}, {}),
     Hit({NodePayload}, {String(DATA_SOURCE_NODE_INDEX_NAME)}, {}),
     Hit({NodePayload}, {String(DATA_SOURCE_NODE_INDEX_NAME)}, {Number("1")}),
     Hit({Null}, {String(<<>>)}, {}),
     Hit({DataSourcePayload}, {String(UnrelatedName)}, {})}

(***************************************************************************)
(* The state machine: a search response, and tasks that each call from_hit *)
(* on a hit of it; the steps of different calls interleave.                *)
(***************************************************************************)
Init ==
    /\ hits \in {<<h>> : h \in Hits}
                \cup UNION {[1..n -> SharedHits] : n \in 2..MaxHits}
    /\ pc = [t \in Threads |-> "idle"]
    /\ ref = [t \in Threads |-> 0]
    /\ source = [t \in Threads |-> {}]
    /\ index = [t \in Threads |-> {}]
    /\ result = [t \in Threads |-> {}]

\* a task calls from_hit(&hits[i])
Call(t, i) ==
    /\ pc[t] \in {"idle", "done"}
    /\ pc' = [pc EXCEPT ![t] = "get_source"]
    /\ ref' = [ref EXCEPT ![t] = i]
    /\ source' = [source EXCEPT ![t] = {}]
    /\ index' = [index EXCEPT ![t] = {}]
    /\ result' = [result EXCEPT ![t] = {}]
    /\ UNCHANGED hits

\* variant of GetSource: the payload is moved out of the hit (Value::take
\* leaves Null behind) instead of being borrowed and cloned
GetSourceTake(t) ==
    /\ pc[t] = "get_source"
    /\ IF extract_source(hits[ref[t]]) = {}
       THEN /\ result' = [result EXCEPT ![t] = {Err(MissingPayload)}]
            /\ pc' = [pc EXCEPT ![t] = "done"]
            /\ UNCHANGED <<source, hits>>
       ELSE /\ source' = [source EXCEPT ![t] = extract_source(hits[ref[t]])]
            /\ hits' = [hits EXCEPT ![ref[t]].fields["_source"] = Null]
            /\ pc' = [pc EXCEPT ![t] = "get_index"]
            /\ UNCHANGED result
    /\ UNCHANGED <<ref, index>>

\* variant of GetSource: the index name is checked before the payload
GetSourceAfterIndex(t) ==
    /\ pc[t] = "get_source"
    /\ IF extract_index(hits[ref[t]]) = {}
       THEN /\ result' = [result EXCEPT ![t] = {Err(MissingIndexName)}]
            /\ pc' = [pc EXCEPT ![t] = "done"]
            /\ UNCHANGED source
       ELSE IF extract_source(hits[ref[t]]) = {}
            THEN /\ result' = [result EXCEPT ![t] = {Err(MissingPayload)}]
                 /\ pc' = [pc EXCEPT ![t] = "done"]
                 /\ UNCHANGED source
            ELSE /\ source' = [source EXCEPT ![t] = extract_source(hits[ref[t]])]
                 /\ pc' = [pc EXCEPT ![t] = "get_index"]
                 /\ UNCHANGED result
    /\ UNCHANGED <<hits, ref, index>>

\* let source = hit.get("_source").ok_or_else(|| anyhow!("Missing _source"))?;
GetSource(t) ==
    /\ pc[t] = "get_source"
    /\ IF extract_source(hits[ref[t]]) = {}
       THEN /\ result' = [result EXCEPT ![t] = {Err(MissingPayload)}]
            /\ pc' = [pc EXCEPT ![t] = "done"]
            /\ UNCHANGED source
       ELSE /\ source' = [source EXCEPT ![t] = extract_source(hits[ref[t]])]
            /\ pc' = [pc EXCEPT ![t] = "get_index"]
            /\ UNCHANGED result
    /\ UNCHANGED <<hits, ref, index>>

\* let index = hit.get("_index").and_then(|v| v.as_str())
\*     .ok_or_else(|| anyhow!("Missing _index"))?;
GetIndex(t) ==
    /\ pc[t] = "get_index"
    /\ IF extract_index(hits[ref[t]]) = {}
       THEN /\ result' = [result EXCEPT ![t] = {Err(MissingIndexName)}]
            /\ pc' = [pc EXCEPT ![t] = "done"]
            /\ UNCHANGED index
       ELSE /\ index' = [index EXCEPT ![t] = extract_index(hits[ref[t]])]
            /\ pc' = [pc EXCEPT ![t] = "dispatch"]
            /\ UNCHANGED result
    /\ UNCHANGED <<hits, ref, source>>

\* variant of Dispatch: the prefixes are matched as an unordered set, so a
\* name that starts with both prefixes goes to either kind
DispatchUnordered(t) ==
    /\ pc[t] = "dispatch"
    /\ \E r \in {classify(the(index[t]), the(source[t]))}
              \cup (IF starts_with(the(index[t]), DATA_SOURCE_INDEX_NAME)
                    THEN {Ok(DataSource(DataSourceESDocument_from(the(source[t]))))}
                    ELSE {}) :
           result' = [result EXCEPT ![t] = {r}]
    /\ pc' = [pc EXCEPT ![t] = "done"]
    /\ UNCHANGED <<hits, ref, source, index>>

\* variant of Dispatch: the whole hit is decoded, not its payload
DispatchWholeHit(t) ==
    /\ pc[t] = "dispatch"
    /\ result' = [result EXCEPT ![t] =
                     {classify(the(index[t]), hits[ref[t]])}]
    /\ pc' = [pc EXCEPT ![t] = "done"]
    /\ UNCHANGED <<hits, ref, source, index>>

\* if index.starts_with(DATA_SOURCE_NODE_INDEX_NAME) { Ok(Node(..)) }
\* else { Ok(DataSource(..)) }
Dispatch(t) ==
    /\ pc[t] = "dispatch"
    /\ result' = [result EXCEPT ![t] = {classify(the(index[t]), the(source[t]))}]
    /\ pc' = [pc EXCEPT ![t] = "done"]
    /\ UNCHANGED <<hits, ref, source, index>>

Next ==
    \E t \in Threads :
        \/ \E i \in 1..Len(hits) : Call(t, i)
        \/ GetSource(t)
        \/ GetIndex(t)
        \/ Dispatch(t)

Spec == Init /\ [][Next]_vars

(***************************************************************************)
(* Vocabulary of the properties, stated on the raw hit and not through the *)
(* operators of from_hit.                                                  *)
(***************************************************************************)
Done(t) == pc[t] = "done"

HitOf(t) == hits[ref[t]]

HasField(h, k) == h.kind = "Object" /\ k \in DOMAIN h.fields

\* the field k of h as it is seen from outside: absent, or present with a value
FieldOf(h, k) == IF HasField(h, k) THEN <<"present", h.fields[k]>> ELSE <<"absent", Null>>

HasSource(h) == HasField(h, "_source")

HasStringIndex(h) == HasField(h, "_index") /\ h.fields["_index"].kind = "String"

IndexText(h) == h.fields["_index"].text

HasPrefix(s, p) == \E n \in 0..Len(s) : SubSeq(s, 1, n) = p

NodeIndexed(h) ==
    HasStringIndex(h) /\ HasPrefix(IndexText(h), DATA_SOURCE_NODE_INDEX_NAME)

DataSourceIndexed(h) ==
    HasStringIndex(h) /\ HasPrefix(IndexText(h), DATA_SOURCE_INDEX_NAME)

UnknownIndexKind == "UnknownIndexKind"

\* C1: a finished call on a hit with a payload and an index name that starts
\* with DATA_SOURCE_NODE_INDEX_NAME has returned the Node variant wrapping the
\* decoding of the hit's _source, although the name starts with the shorter
\* data-source prefix too.
C1_NodePrefixWins ==
    \A t \in Threads :
        (Done(t) /\ HasSource(HitOf(t)) /\ NodeIndexed(HitOf(t)))
        => result[t] = {Ok(Node(NodeESDocument_from(HitOf(t).fields["_source"])))}

C1_Witness ==
    \E t \in Threads :
        /\ Done(t) /\ HasSource(HitOf(t)) /\ NodeIndexed(HitOf(t))
        /\ DataSourceIndexed(HitOf(t))
        /\ Len(IndexText(HitOf(t))) > Len(DATA_SOURCE_NODE_INDEX_NAME)
        /\ result[t] # {}

\* C2: a finished call on a hit with a payload and an index name that starts
\* with no registered prefix has failed with UnknownIndexKind, and has
\* returned no variant.
C2_UnmatchedIndexFails ==
    \A t \in Threads :
        (Done(t) /\ HasSource(HitOf(t)) /\ HasStringIndex(HitOf(t))
            /\ ~NodeIndexed(HitOf(t)) /\ ~DataSourceIndexed(HitOf(t)))
        => result[t] = {Err(UnknownIndexKind)}

\* C3: a finished call on a hit without _source (a hit that is no object
\* included) has returned the error "Missing _source" and no variant,
\* whatever _index is.
C3_MissingSource ==
    \A t \in Threads :
        (Done(t) /\ ~HasSource(HitOf(t)))
        => /\ result[t] = {Err(MissingPayload)}
           /\ \A r \in result[t] : ~r.ok /\ r.item = NoItem

C3_Witness ==
    \E t1, t2 \in Threads :
        /\ Done(t1) /\ HitOf(t1).kind # "Object"
        /\ Done(t2) /\ HitOf(t2).kind = "Object" /\ ~HasSource(HitOf(t2))
        /\ NodeIndexed(HitOf(t2))

\* C4: a finished call on a hit with _source whose _index is absent or is not
\* a string has returned the error "Missing _index" and no variant.
C4_MissingIndex ==
    \A t \in Threads :
        (Done(t) /\ HasSource(HitOf(t)) /\ ~HasStringIndex(HitOf(t)))
        => /\ result[t] = {Err(MissingIndexName)}
           /\ \A r \in result[t] : ~r.ok /\ r.item = NoItem

C4_Witness ==
    \E t1, t2 \in Threads :
        /\ Done(t1) /\ HasSource(HitOf(t1)) /\ ~HasField(HitOf(t1), "_index")
        /\ Done(t2) /\ HasSource(HitOf(t2)) /\ HasField(HitOf(t2), "_index")
        /\ HitOf(t2).fields["_index"].kind = "Number"

\* C5: a finished call on a hit with a payload and an index name that starts
\* with the data-source prefix and not with DATA_SOURCE_NODE_INDEX_NAME has
\* returned the DataSource variant wrapping the decoding of the hit's
\* _source, and not the Node variant.
C5_DataSourcePrefix ==
    \A t \in Threads :
        (Done(t) /\ HasSource(HitOf(t)) /\ DataSourceIndexed(HitOf(t))
            /\ ~NodeIndexed(HitOf(t)))
        => /\ result[t] =
                {Ok(DataSource(DataSourceESDocument_from(HitOf(t).fields["_source"])))}
           /\ \A r \in result[t] : r.item.variant # "Node"

C5_Witness ==
    \E t \in Threads :
        /\ Done(t) /\ HasSource(HitOf(t)) /\ DataSourceIndexed(HitOf(t))
        /\ ~NodeIndexed(HitOf(t))
        /\ IndexText(HitOf(t)) = DATA_SOURCE_INDEX_NAME \o <<"_", "v", "1">>
        /\ result[t] # {}

\* C6: two finished calls on the same hit have returned equal results: the
\* same variant wrapping the same decoded payload, or the same error.
C6_Deterministic ==
    \A t1, t2 \in Threads :
        (Done(t1) /\ Done(t2) /\ HitOf(t1) = HitOf(t2))
        => result[t1] = result[t2]

C6_Witness ==
    \E t1, t2 \in Threads :
        /\ t1 # t2 /\ Done(t1) /\ Done(t2) /\ HitOf(t1) = HitOf(t2)
        /\ NodeIndexed(HitOf(t1))
        /\ \A r \in result[t1] \cup result[t2] : r.ok
        /\ result[t1] # {} /\ result[t2] # {}

\* C7: two finished calls on hits that agree on the presence and the value of
\* _source and of _index have returned equal results, whatever the other
\* fields of the two hits are.
C7_OnlySourceAndIndex ==
    \A t1, t2 \in Threads :
        (/\ Done(t1) /\ Done(t2)
         /\ FieldOf(HitOf(t1), "_source") = FieldOf(HitOf(t2), "_source")
         /\ FieldOf(HitOf(t1), "_index") = FieldOf(HitOf(t2), "_index"))
        => result[t1] = result[t2]

C7_Witness ==
    \E t1, t2 \in Threads :
        /\ Done(t1) /\ Done(t2) /\ HitOf(t1) # HitOf(t2)
        /\ FieldOf(HitOf(t1), "_source") = FieldOf(HitOf(t2), "_source")
        /\ FieldOf(HitOf(t1), "_index") = FieldOf(HitOf(t2), "_index")
        /\ HasField(HitOf(t1), "_score") /\ ~HasField(HitOf(t2), "_score")
        /\ \A r \in result[t1] \cup result[t2] : r.ok
        /\ result[t1] # {} /\ result[t2] # {}

\* C8: in every interleaving of the calls, a finished call has returned the
\* result that from_hit run alone returns on its hit, and no step of any call
\* changes a hit of the response.
C8_ConcurrentCallsIsolated ==
    /\ [](\A t \in Threads : Done(t) => result[t] = {from_hit(HitOf(t))})
    /\ [][hits' = hits]_vars

C8_Witness ==
    \E t1, t2 \in Threads :
        /\ t1 # t2 /\ ref[t1] = ref[t2]
        /\ Done(t1) /\ \A r \in result[t1] : r.ok
        /\ pc[t2] = "dispatch"

\* C9: a finished call on a hit that lacks _source and has no string _index
\* has returned "Missing _source" and not "Missing _index"; "Missing _index"
\* is returned only for hits that have _source; the two errors differ.
C9_PayloadCheckedFirst ==
    /\ MissingPayload # MissingIndexName
    /\ \A t \in Threads :
        Done(t) =>
            /\ (~HasSource(HitOf(t)) /\ ~HasStringIndex(HitOf(t)))
               => (result[t] = {Err(MissingPayload)}
                   /\ result[t] # {Err(MissingIndexName)})
            /\ result[t] = {Err(MissingIndexName)} => HasSource(HitOf(t))

C9_Witness ==
    \E t1, t2 \in Threads :
        /\ Done(t1) /\ HitOf(t1).kind = "Object" /\ ~HasSource(HitOf(t1))
        /\ ~HasStringIndex(HitOf(t1))
        /\ Done(t2) /\ result[t2] = {Err(MissingIndexName)}

====
